---- MODULE Spec2Model ----
(***************************************************************************)
(* Model of bcbio/cwl/hpc.py: generation of the Cromwell configuration.    *)
(*                                                                         *)
(* Text is a sequence of atoms: an atom stands for a run of characters.    *)
(* In a string the code parses, the separators it looks for are atoms of   *)
(* their own (";" and "=" in resource strings; "%(", "(", ")" and the      *)
(* conversion character in templates).  String concatenation is sequence   *)
(* concatenation.                                                          *)
(* A Python value that may be None is a record [isNone, v].                *)
(***************************************************************************)
EXTENDS Integers, Sequences, FiniteSets, TLC

VARIABLES args, sample_file, runconfig_file, out_file, default_config, ret

vars == <<args, sample_file, runconfig_file, out_file, default_config, ret>>

(***************************************************************************)
(* Bounds                                                                  *)
(***************************************************************************)
MaxDepth == 2
MaxTokens == 2
MaxJobLimit == 2

(***************************************************************************)
(* Python values                                                           *)
(***************************************************************************)
Str(s) == [isNone |-> FALSE, v |-> s]

PyNone == [isNone |-> TRUE, v |-> <<>>]

\* bool(x) of an optional string: None and "" are false
Truthy(x) == ~x.isNone /\ x.v # <<>>

\* str(x), as "%s" applies it
PyStr(x) == IF x.isNone THEN <<"None">> ELSE x.v

Digit(d) == <<"0", "1", "2", "3", "4", "5", "6", "7", "8", "9">>[d + 1]

RECURSIVE Digits(_)
Digits(n) == IF n < 10 THEN <<Digit(n)>> ELSE Digits(n \div 10) \o <<Digit(n % 10)>>

\* str(n) of an int
IntStr(n) == IF n < 0 THEN <<"-">> \o Digits(0 - n) ELSE Digits(n)

Has(text, atom) == \E i \in 1..Len(text) : text[i] = atom

\* dict item assignment m[k] = v
Put(m, k, v) == [x \in (DOMAIN m) \cup {k} |-> IF x = k THEN v ELSE m[x]]

\* dict.update
Update(m, n) == [x \in (DOMAIN m) \cup (DOMAIN n) |-> IF x \in DOMAIN n THEN n[x] ELSE m[x]]

EmptyDict == [x \in {} |-> PyNone]

(***************************************************************************)
(* JSON documents: scalar, list (items), dict (keys[i] -> items[i], in     *)
(* document order).                                                        *)
(***************************************************************************)
Scalar(s) == [t |-> "scalar", v |-> s, keys |-> <<>>, items |-> <<>>]

List(xs) == [t |-> "list", v |-> <<>>, keys |-> <<>>, items |-> xs]

Dict(ks, xs) == [t |-> "dict", v |-> <<>>, keys |-> ks, items |-> xs]

HasKey(d, k) == \E i \in 1..Len(d.keys) : d.keys[i] = k

\* d[k] of a dict that has the key
Get(d, k) == d.items[CHOOSE i \in 1..Len(d.keys) : d.keys[i] = k]

(***************************************************************************)
(* _get_file_paths                                                         *)
(***************************************************************************)
RECURSIVE get_file_paths_leafless(_)
RECURSIVE leafless_each(_, _)
leafless_each(xs, i) ==
    IF i > Len(xs) THEN <<>>
    ELSE get_file_paths_leafless(xs[i]) \o leafless_each(xs, i + 1)

\* variant that only descends through lists
get_file_paths_leafless(cur) ==
    IF cur.t = "list" THEN leafless_each(cur.items, 1)
    ELSE IF cur.t = "dict" /\ HasKey(cur, "class") THEN <<Get(cur, "path").v>>
    ELSE <<>>

RECURSIVE get_file_paths(_)
RECURSIVE get_file_paths_each(_, _)
\* the two loops "for x in ...: new = _get_file_paths(x); out.extend(new)"
get_file_paths_each(xs, i) ==
    IF i > Len(xs) THEN <<>>
    ELSE get_file_paths(xs[i]) \o get_file_paths_each(xs, i + 1)

get_file_paths(cur) ==
    IF cur.t = "list" THEN get_file_paths_each(cur.items, 1)
    ELSE IF cur.t = "dict"
         THEN IF HasKey(cur, "class")
              THEN <<Get(cur, "path").v>>
              ELSE get_file_paths_each(cur.items, 1)
    ELSE <<>>

(***************************************************************************)
(* _get_filesystem_types                                                   *)
(***************************************************************************)
\* f.startswith(prefix) for a prefix that is one atom
StartsWith(f, prefix) == Len(f) > 0 /\ f[1] = prefix

ext_flipped(no_container) == IF no_container THEN <<"_container">> ELSE <<>>

\* ext = "" if args.no_container else "_container"
ext(no_container) == IF no_container THEN <<>> ELSE <<"_container">>

\* the if/elif/else on the path's prefix
file_type(f, e) ==
    IF StartsWith(f, "gs:") THEN <<"gcp">> \o e
    ELSE IF StartsWith(f, "https:") \/ StartsWith(f, "http:") THEN <<"http">> \o e
    ELSE <<"local">> \o e

get_filesystem_types(a, json) ==
    LET paths == get_file_paths(json)
    IN  {file_type(paths[i], ext(a.no_container)) : i \in 1..Len(paths)}

(***************************************************************************)
(* _args_to_cromwell                                                       *)
(***************************************************************************)
K(name) == <<name>>

\* the dict literal of lines 79-85
DefaultConfigLiteral ==
    [s \in {"slurm", "sge", "lsf", "htcondor", "torque", "pbspro"} |->
        CASE s = "slurm" ->
                 [k \in {K("timelimit"), K("account")} |->
                     IF k = K("timelimit") THEN Str(<<"1-00:00">>) ELSE Str(<<>>)]
          [] s = "sge" ->
                 [k \in {K("memtype"), K("pename")} |->
                     IF k = K("memtype") THEN Str(<<"mem_type">>) ELSE Str(<<"smp">>)]
          [] s = "torque" ->
                 [k \in {K("walltime"), K("account")} |->
                     IF k = K("walltime") THEN Str(<<"24:00:00">>) ELSE Str(<<>>)]
          [] s = "pbspro" ->
                 [k \in {K("walltime"), K("account"), K("cpu_and_mem")} |->
                     IF k = K("walltime") THEN Str(<<"24:00:00">>)
                     ELSE IF k = K("account") THEN Str(<<>>)
                     ELSE Str(<<"-l select=1:ncpus=${cpu}:mem=${memory_mb}mb">>)]
          [] OTHER -> EmptyDict]

\* a dict built once and kept between calls
bind_default_config_once(kept) == kept

\* "default_config = {...}" runs at every call: the name is bound to a new
\* dict whatever an earlier call left behind
bind_default_config(kept) == DefaultConfigLiteral

prefixes_pbspro_only ==
    [p \in {<<K("account"), "pbspro">>} |-> <<"-A ">>]

prefixes ==
    [p \in {<<K("account"), "slurm">>, <<K("account"), "pbspro">>} |-> <<"-A ">>]

custom ==
    [p \in {<<K("noselect"), "pbspro">>} |->
        [key |-> K("cpu_and_mem"), val |-> <<"-l ncpus=${cpu} -l mem=${memory_mb}mb">>]]

\* prefixes.get((key, scheduler), "")
prefix_get(key, scheduler) ==
    IF <<key, scheduler>> \in DOMAIN prefixes THEN prefixes[<<key, scheduler>>] ELSE <<>>

\* index of the first separator at or after i, 0 when there is none
RECURSIVE Find(_, _, _)
Find(s, sep, i) ==
    IF i > Len(s) THEN 0 ELSE IF s[i] = sep THEN i ELSE Find(s, sep, i + 1)

\* str.split(sep)
RECURSIVE Split(_, _)
Split(s, sep) ==
    LET i == Find(s, sep, 1)
    IN  IF i = 0 THEN <<s>>
        ELSE <<SubSeq(s, 1, i - 1)>> \o Split(SubSeq(s, i + 1, Len(s)), sep)

\* str.upper() of a scheduler name
Upper(s) ==
    CASE s = "slurm" -> "SLURM"
      [] s = "sge" -> "SGE"
      [] s = "lsf" -> "LSF"
      [] s = "htcondor" -> "HTCONDOR"
      [] s = "torque" -> "TORQUE"
      [] s = "pbspro" -> "PBSPRO"
      [] OTHER -> s

apply_resource_keep_first(config, r, scheduler) ==
    LET parts == Split(r, "=")
    IN  IF Len(parts) = 2
        THEN IF parts[1] \in DOMAIN config THEN config
             ELSE Put(config, parts[1], Str(prefix_get(parts[1], scheduler) \o parts[2]))
        ELSE IF Len(parts) = 1 /\ <<parts[1], scheduler>> \in DOMAIN custom
        THEN Put(config, custom[<<parts[1], scheduler>>].key,
                 Str(custom[<<parts[1], scheduler>>].val))
        ELSE config

\* body of "for r in rs.split(';')", lines 101-107
apply_resource(config, r, scheduler) ==
    LET parts == Split(r, "=")
    IN  IF Len(parts) = 2
        THEN Put(config, parts[1], Str(prefix_get(parts[1], scheduler) \o parts[2]))
        ELSE IF Len(parts) = 1 /\ <<parts[1], scheduler>> \in DOMAIN custom
        THEN Put(config, custom[<<parts[1], scheduler>>].key,
                 Str(custom[<<parts[1], scheduler>>].val))
        ELSE config

\* "for r in rs.split(';')" over one resource string
RECURSIVE apply_tokens(_, _, _, _)
apply_tokens(config, rsplit, i, scheduler) ==
    IF i > Len(rsplit) THEN config
    ELSE apply_tokens(apply_resource(config, rsplit[i], scheduler), rsplit, i + 1, scheduler)

\* "for rs in args.resources"
RECURSIVE apply_resources(_, _, _, _)
apply_resources(config, resources, i, scheduler) ==
    IF i > Len(resources) THEN config
    ELSE apply_resources(apply_tokens(config, Split(resources[i], ";"), 1, scheduler),
                         resources, i + 1, scheduler)

ErrUnsupported == "ValueError: Scheduler not yet supported by Cromwell"

ErrQueue == "ValueError: Need to set queue (-q) for running with an HPC scheduler"

\* args.scheduler is a string; "" stands for both None and the empty string,
\* which the code does not tell apart
args_to_cromwell(a, kept) ==
    LET dc == bind_default_config(kept)
    IN  IF a.scheduler # ""
        THEN IF a.scheduler \notin DOMAIN dc
             THEN [err |-> ErrUnsupported, cl |-> <<>>, config |-> EmptyDict,
                   scheduler |-> a.scheduler, default_config |-> dc]
             ELSE IF ~Truthy(a.queue) /\ a.scheduler # "htcondor"
             THEN [err |-> ErrQueue, cl |-> <<>>, config |-> EmptyDict,
                   scheduler |-> a.scheduler, default_config |-> dc]
             ELSE LET config == apply_resources(Put(dc[a.scheduler], K("queue"), a.queue),
                                                a.resources, 1, a.scheduler)
                  IN  [err |-> "", cl |-> << <<"-Dbackend.default=", Upper(a.scheduler)>> >>,
                       config |-> config, scheduler |-> a.scheduler,
                       \* config is the scheduler's entry of default_config itself
                       default_config |-> [dc EXCEPT ![a.scheduler] = config]]
        ELSE [err |-> "", cl |-> <<>>, config |-> EmptyDict, scheduler |-> a.scheduler,
              default_config |-> dc]

(***************************************************************************)
(* "%" formatting of a template with a mapping                             *)
(***************************************************************************)
\* a well-formed placeholder %(name)s
Ph(name) == <<"%(", name, ")", "s">>

\* index of the ")" that closes the key opened before position i; every "("
\* on the way (that of a "%(" too) opens a nested level; 0 when the template
\* ends first
RECURSIVE KeyEnd(_, _, _)
KeyEnd(t, i, pcount) ==
    IF i > Len(t) THEN 0
    ELSE IF t[i] = ")" THEN (IF pcount = 1 THEN i ELSE KeyEnd(t, i + 1, pcount - 1))
    ELSE IF t[i] = "(" \/ t[i] = "%(" THEN KeyEnd(t, i + 1, pcount + 1)
    ELSE KeyEnd(t, i + 1, pcount)

RECURSIVE FormatFrom(_, _, _, _)
FormatFrom(t, i, m, acc) ==
    IF i > Len(t) THEN [err |-> "", text |-> acc]
    ELSE IF t[i] # "%(" THEN FormatFrom(t, i + 1, m, Append(acc, t[i]))
    ELSE LET j == KeyEnd(t, i + 1, 1)
         IN  IF j = 0 THEN [err |-> "ValueError: incomplete format key", text |-> <<>>]
             ELSE IF SubSeq(t, i + 1, j - 1) \notin DOMAIN m
             THEN [err |-> "KeyError", text |-> <<>>]
             ELSE IF j + 1 > Len(t)
             THEN [err |-> "ValueError: incomplete format", text |-> <<>>]
             ELSE IF t[j + 1] # "s"
             THEN [err |-> "ValueError: unsupported format character", text |-> <<>>]
             ELSE FormatFrom(t, j + 2, m, acc \o PyStr(m[SubSeq(t, i + 1, j - 1)]))

\* template % mapping
Format(t, m) == FormatFrom(t, 1, m, <<>>)

\* sep.join(items)
RECURSIVE Join(_, _)
Join(items, sep) ==
    IF items = <<>> THEN <<>>
    ELSE IF Len(items) = 1 THEN items[1]
    ELSE items[1] \o sep \o Join(Tail(items), sep)

(***************************************************************************)
(* Filesystem fragments                                                    *)
(***************************************************************************)
FsGcs == "        gcs {"

EngineGcs == "    gcs {"

AuthDefault == "auth = \"application-default\""

EngineAuth == "      auth = \"application-default\""

GoogleAuths == "auths = [ { name = \"application-default\" scheme = \"application_default\" } ]"

FILESYSTEM_CONFIG ==
    [tag \in {<<"gcp">>, <<"gcp", "_container">>, <<"http">>, <<"http", "_container">>,
              <<"local">>, <<"local", "_container">>} |->
        CASE tag = <<"gcp">> ->
                 <<FsGcs, AuthDefault, "caching { duplication-strategy = \"reference\" }", "}">>
          [] tag = <<"gcp", "_container">> ->
                 <<FsGcs, AuthDefault, "caching { duplication-strategy = \"copy\" }", "}">>
          [] tag = <<"http">> -> <<"        http { }">>
          [] tag = <<"http", "_container">> -> <<"        http { }">>
          [] tag = <<"local">> ->
                 <<"        local {", "localization: [\"soft-link\"]",
                   "caching { duplication-strategy: [\"soft-link\"] hashing-strategy: \"path\" }",
                   "}">>
          [] tag = <<"local", "_container">> ->
                 <<FsGcs, AuthDefault, "caching { duplication-strategy = \"copy\" }", "}">>]

\* order of the first characters of the atoms of a tag: "_" < "g" < "h" < "l"
AtomRank(a) ==
    CASE a = "_container" -> 0
      [] a = "gcp" -> 1
      [] a = "http" -> 2
      [] a = "local" -> 3
      [] OTHER -> 4

\* a < b for strings
RECURSIVE StrLess(_, _)
StrLess(a, b) ==
    IF b = <<>> THEN FALSE
    ELSE IF a = <<>> THEN TRUE
    ELSE IF Head(a) = Head(b) THEN StrLess(Tail(a), Tail(b))
    ELSE AtomRank(Head(a)) < AtomRank(Head(b))

\* sorted(list(file_types))
RECURSIVE Sorted(_)
Sorted(S) ==
    IF S = {} THEN <<>>
    ELSE LET x == CHOOSE y \in S : \A z \in S \ {y} : StrLess(y, z)
         IN  <<x>> \o Sorted(S \ {x})

RECURSIVE filesystem_fragments(_, _)
filesystem_fragments(tags, i) ==
    IF i > Len(tags) THEN <<>>
    ELSE FILESYSTEM_CONFIG[tags[i]] \o filesystem_fragments(tags, i + 1)

get_filesystem_config(file_types) ==
    <<"     filesystems {">> \o filesystem_fragments(Sorted(file_types), 1) \o <<"      }">>

AUTH_CONFIG_GOOGLE == <<"google {", "application-name = \"cromwell\"", GoogleAuths, "}">>

\* x.replace("_container", "")
StripContainer(x) == SelectSeq(x, LAMBDA a : a # "_container")

get_engine_filesystem_config(file_types) ==
    LET types == {StripContainer(x) : x \in file_types}
        gcp == <<"gcp">> \in types
        http == <<"http">> \in types
    IN  (IF gcp THEN AUTH_CONFIG_GOOGLE ELSE <<>>)
        \o (IF gcp \/ http
            THEN <<"engine {", "  filesystems {">>
                 \o (IF gcp THEN <<EngineGcs, EngineAuth, "    }">> ELSE <<>>)
                 \o (IF http THEN <<"    http {}">> ELSE <<>>)
                 \o <<"  }", "}">>
            ELSE <<>>)

DATABASE_CONFIG ==
    <<"database { profile = \"slick.jdbc.HsqldbProfile$\" db { url = \"jdbc:hsqldb:file:">>
    \o Ph("work_dir") \o <<"/persist/metadata;shutdown=false;hsqldb.tx=mvcc\" } }">>

(***************************************************************************)
(* Templates                                                               *)
(***************************************************************************)
CROMWELL_CONFIG ==
    <<"include required", "(", "classpath", "(", "\"application\"", ")", ")",
      "system { workflow-restart = true }", "call-caching { enabled = true }",
      "load-control { memory-threshold-in-mb = 1 }",
      "cwltool-runner { class = \"cwl.CwltoolProcess\" }">>
    \o Ph("database") \o Ph("engine")
    \o <<"backend { providers {", "Local { config {">>
    \o Ph("joblimit")
    \o <<"runtime-attributes = \"\"\" Int? cpu Int? memory_mb">>
    \o Ph("docker_attrs") \o Ph("cwl_attrs") \o <<"\"\"\"">>
    \o Ph("submit_docker") \o Ph("filesystem")
    \o <<"} }">>
    \o Ph("hpc")
    \o <<"} }">>

HpcHead(name) ==
    <<name, "{ actor-factory = ... config {">> \o Ph("joblimit")
    \o <<"runtime-attributes = \"\"\" Int cpu = 1 Int memory_mb = 2048">>

HpcAttrsEnd == Ph("docker_attrs") \o Ph("cwl_attrs") \o <<"\"\"\"">>

HPC_CONFIGS ==
    [s \in {"slurm", "sge", "pbspro", "torque", "htcondor"} |->
        CASE s = "slurm" ->
                 HpcHead("SLURM")
                 \o <<"String queue =">> \o Ph("queue")
                 \o <<"String timelimit =">> \o Ph("timelimit")
                 \o <<"String account =">> \o Ph("account")
                 \o HpcAttrsEnd
                 \o <<"submit = sbatch ... ${account} --wrap ${script}", "kill = scancel",
                      "check-alive = squeue", "job-id-regex = Submitted batch job",
                      "(", "\\\\d+", ")", ".*">>
                 \o Ph("filesystem") \o <<"} }">>
          [] s = "sge" ->
                 HpcHead("SGE")
                 \o <<"String queue =">> \o Ph("queue")
                 \o <<"String pename =", "%(", "pename", "}", "s">>
                 \o <<"String memtype =">> \o Ph("memtype")
                 \o HpcAttrsEnd
                 \o <<"submit = qsub ... -pe ${pename} ${cpu} ...", "kill = qdel",
                      "check-alive = qstat -j", "job-id-regex =", "(", "\\\\d+", ")">>
                 \o Ph("filesystem") \o <<"} }">>
          [] s = "pbspro" ->
                 HpcHead("PBSPRO")
                 \o <<"String queue =">> \o Ph("queue")
                 \o <<"String account =">> \o Ph("account")
                 \o <<"String walltime =">> \o Ph("walltime")
                 \o HpcAttrsEnd
                 \o <<"submit = qsub ... -l walltime=${walltime}">> \o Ph("cpu_and_mem")
                 \o <<"-- /usr/bin/env bash ${script}", "kill = qdel", "check-alive = qstat -j",
                      "job-id-regex =", "(", "\\\\d+", ")", ".*">>
                 \o Ph("filesystem") \o <<"} }">>
          [] s = "torque" ->
                 HpcHead("TORQUE")
                 \o <<"String queue =">> \o Ph("queue")
                 \o <<"String account =">> \o Ph("account")
                 \o <<"String walltime =">> \o Ph("walltime")
                 \o HpcAttrsEnd
                 \o <<"submit = qsub ... -l walltime=${walltime} ${script}", "kill = qdel",
                      "check-alive = qstat", "job-id-regex =", "(", "\\\\d+", ")", ".*">>
                 \o Ph("filesystem") \o <<"} }">>
          [] OTHER ->
                 <<"HTCONDOR", "{ actor-factory = ... config {">> \o Ph("joblimit")
                 \o <<"runtime-attributes = \"\"\" Int cpu = 1 Float memory_mb = 512.0 Float disk_kb = 256000.0 String? nativeSpecs">>
                 \o HpcAttrsEnd
                 \o <<"submit = ... condor_submit ${cwd}/execution/submitFile", "kill = condor_rm",
                      "check-alive = condor_q", "job-id-regex =", "(", "?sm", ")", ".*cluster ",
                      "(", "\\\\d+", ")", "..*">>
                 \o Ph("filesystem") \o <<"} }">>]

(***************************************************************************)
(* _load_custom_config                                                     *)
(* The document is [parses, has_database, database]: whether pyhocon       *)
(* parses it, and its database section.                                    *)
(***************************************************************************)
ErrParse == "ConfigParseError"

load_custom_config(doc) ==
    IF ~doc.parses THEN [err |-> ErrParse, out |-> EmptyDict]
    ELSE IF doc.has_database
    THEN [err |-> "",
          out |-> [k \in {K("database")} |-> Str(<<"database {">> \o doc.database \o <<"}">>)]]
    ELSE [err |-> "", out |-> EmptyDict]

(***************************************************************************)
(* create_cromwell_config                                                  *)
(***************************************************************************)
docker_attrs == << <<"String? docker">>, <<"String? docker_user">> >>

cwl_attrs ==
    << <<"Int? cpuMin">>, <<"Int? cpuMax">>, <<"Int? memoryMin">>, <<"Int? memoryMax">>,
       <<"String? outDirMin">>, <<"String? outDirMax">>, <<"String? tmpDirMin">>,
       <<"String? tmpDirMax">> >>

WorkDir == <<"/work">>

\* os.path.join(work_dir, "bcbio-cromwell.conf")
OutFilePath(work_dir) == work_dir \o <<"/", "bcbio-cromwell.conf">>

ErrIO == "IOError"

Absent == [exists |-> FALSE, text |-> <<>>]

File(text) == [exists |-> TRUE, text |-> text]

effective_joblimit_unforced(joblimit, scheduler) == joblimit

\* lines 18-20
effective_joblimit(joblimit, scheduler) ==
    IF joblimit = 0 /\ scheduler = "" THEN 1 ELSE joblimit

\* line 24
joblimit_directive(joblimit) ==
    IF joblimit > 0 THEN <<"concurrent-job-limit = ">> \o IntStr(joblimit) ELSE <<>>

\* lines 22-28
std_args(a, work_dir, file_types, run_config) ==
    [k \in {K("docker_attrs"), K("submit_docker"), K("joblimit"), K("cwl_attrs"),
            K("filesystem"), K("database"), K("engine")} |->
        CASE k = K("docker_attrs") ->
                 Str(IF a.no_container THEN <<>> ELSE Join(docker_attrs, <<"\n        ">>))
          [] k = K("submit_docker") ->
                 Str(IF a.no_container THEN <<"submit-docker: \"\"">> ELSE <<>>)
          [] k = K("joblimit") ->
                 Str(joblimit_directive(effective_joblimit(a.joblimit, a.scheduler)))
          [] k = K("cwl_attrs") -> Str(Join(cwl_attrs, <<"\n        ">>))
          [] k = K("filesystem") -> Str(get_filesystem_config(file_types))
          [] k = K("database") ->
                 IF K("database") \in DOMAIN run_config THEN run_config[K("database")]
                 ELSE Str(Format(DATABASE_CONFIG,
                                 [w \in {K("work_dir")} |-> Str(work_dir)]).text)
          [] OTHER -> Str(get_engine_filesystem_config(file_types))]

\* line 31: the scheduler's provider block
hpc_block(scheduler, conf_args) ==
    IF scheduler = "" THEN [err |-> "", text |-> <<>>]
    ELSE IF scheduler \notin DOMAIN HPC_CONFIGS THEN [err |-> "KeyError", text |-> <<>>]
    ELSE Format(HPC_CONFIGS[scheduler], conf_args)

out_file_opened_first(old, err, written) ==
    IF err # "" \/ written.err # "" THEN File(<<>>) ELSE File(written.text)

\* lines 37-38: the file is opened for writing (and so emptied) only once
\* everything before has succeeded; the text is formatted after the open
out_file_after(old, err, written) ==
    IF err # "" THEN old
    ELSE IF written.err # "" THEN File(<<>>)
    ELSE File(written.text)

NoResult ==
    [op |-> "", err |-> "", cl |-> <<>>, config |-> EmptyDict, scheduler |-> "",
     file_types |-> {}, hpc |-> <<>>, text |-> <<>>, path |-> <<>>]

create_cromwell_config(a, work_dir, sample, doc, kept, old) ==
    LET loaded == IF Truthy(a.runconfig) THEN load_custom_config(doc)
                  ELSE [err |-> "", out |-> EmptyDict]
        file_types == IF sample.readable THEN get_filesystem_types(a, sample.json) ELSE {}
        std == std_args(a, work_dir, file_types, loaded.out)
        tr == args_to_cromwell(a, kept)
        conf_args == Update(tr.config, std)
        hpc == hpc_block(tr.scheduler, conf_args)
        main_config == Update([k \in {K("hpc"), K("work_dir")} |->
                                  IF k = K("hpc") THEN Str(hpc.text) ELSE Str(work_dir)],
                              std)
        written == Format(CROMWELL_CONFIG, main_config)
        \* the first failure in program order: line 15, 21, 29, 31
        err == IF loaded.err # "" THEN loaded.err
               ELSE IF ~sample.readable THEN ErrIO
               ELSE IF tr.err # "" THEN tr.err
               ELSE hpc.err
        reached == loaded.err = "" /\ sample.readable
        final == IF err # "" THEN err ELSE written.err
    IN  [ret |-> [op |-> "create_cromwell_config", err |-> final,
                  cl |-> IF reached /\ tr.err = "" THEN tr.cl ELSE <<>>,
                  config |-> IF reached /\ tr.err = "" THEN conf_args ELSE EmptyDict,
                  scheduler |-> a.scheduler,
                  file_types |-> IF loaded.err = "" THEN file_types ELSE {},
                  hpc |-> IF err = "" THEN hpc.text ELSE <<>>,
                  text |-> IF final = "" THEN written.text ELSE <<>>,
                  path |-> IF final = "" THEN OutFilePath(work_dir) ELSE <<>>],
         out_file |-> out_file_after(old, err, written),
         \* _args_to_cromwell runs only when lines 15 and 21 did not raise;
         \* conf_args is still the scheduler's entry of default_config
         default_config |-> IF ~reached THEN kept
                            ELSE IF tr.err = "" /\ a.scheduler # ""
                            THEN [tr.default_config EXCEPT ![a.scheduler] = conf_args]
                            ELSE tr.default_config]

args_to_cromwell_cl(a, kept) ==
    LET tr == args_to_cromwell(a, kept)
    IN  [ret |-> [NoResult EXCEPT !.op = "args_to_cromwell_cl", !.err = tr.err, !.cl = tr.cl,
                                  !.config = tr.config, !.scheduler = a.scheduler],
         default_config |-> tr.default_config]

(***************************************************************************)
(* Inputs                                                                  *)
(***************************************************************************)
GsPath == <<"gs:", "//bucket/sample.bam">>

LocalPath == <<"/data/sample.bam">>

Paths == {GsPath, <<"http:", "//host/sample.bam">>, <<"https:", "//host/sample.bam">>, LocalPath}

FileRef(p) == Dict(<<"class", "path">>, <<Scalar(<<"File">>), Scalar(p)>>)

\* a file record that lists another value under secondaryFiles
FileRefWith(p, x) ==
    Dict(<<"class", "path", "secondaryFiles">>, <<Scalar(<<"File">>), Scalar(p), List(<<x>>)>>)

Leaves == {Scalar(<<"text">>)} \cup {FileRef(p) : p \in Paths}

RECURSIVE Manifests(_)
Manifests(d) ==
    IF d = 0 THEN Leaves \cup {List(<<>>)}
    ELSE LET S == Manifests(d - 1)
         IN  S \cup {List(<<x>>) : x \in S}
               \cup {Dict(<<"files">>, <<x>>) : x \in S}
               \cup {FileRefWith(LocalPath, x) : x \in S}
               \cup {List(<<x, l>>) : x \in S, l \in Leaves}
               \cup {List(<<l, x>>) : x \in S, l \in Leaves}
               \cup {Dict(<<"a", "b">>, <<x, l>>) : x \in S, l \in Leaves}

Readable(json) == [readable |-> TRUE, json |-> json]

Unreadable == [readable |-> FALSE, json |-> Scalar(<<>>)]

Supported == {"slurm", "sge", "pbspro", "torque", "htcondor"}

Schedulers == Supported \cup {"", "lsf", "moab"}

Batch == Str(<<"batch">>)

AccountMyacct == <<"account", "=", "myacct">>

AccountOther == <<"account", "=", "other">>

ResourceTokens ==
    {AccountMyacct, AccountOther, <<"noselect">>, <<"nosuch">>,
     <<"account", "=", "my", "=", "acct">>, <<>>}

\* resource lists holding at most n tokens in all, each token either a new
\* string of the list or joined to the last string with ";"
RECURSIVE ResourceLists(_)
ResourceLists(n) ==
    IF n = 0 THEN {<<>>}
    ELSE LET S == ResourceLists(n - 1)
         IN  S \cup {Append(l, tok) : l \in S, tok \in ResourceTokens}
               \cup {[l EXCEPT ![Len(l)] = l[Len(l)] \o <<";">> \o tok] :
                        l \in S \ {<<>>}, tok \in ResourceTokens}

NoArgs ==
    [scheduler |-> "", queue |-> PyNone, resources |-> <<>>, joblimit |-> 0,
     no_container |-> FALSE, runconfig |-> PyNone]

NoDoc == [parses |-> TRUE, has_database |-> FALSE, database |-> <<>>]

Docs ==
    {NoDoc, [parses |-> FALSE, has_database |-> FALSE, database |-> <<>>],
     [parses |-> TRUE, has_database |-> TRUE, database |-> <<"profile = custom">>]}

Previous == File(<<"previous content">>)

(***************************************************************************)
(* The detector on one manifest                                            *)
(***************************************************************************)
InitDetect ==
    /\ args \in {[NoArgs EXCEPT !.no_container = b] : b \in BOOLEAN}
    /\ sample_file \in {Readable(m) : m \in Manifests(MaxDepth)}
    /\ runconfig_file = NoDoc
    /\ out_file = Absent
    /\ default_config = DefaultConfigLiteral
    /\ ret = NoResult

GetFilesystemTypes ==
    /\ sample_file.readable
    /\ ret' = [NoResult EXCEPT !.op = "_get_filesystem_types",
                               !.file_types = get_filesystem_types(args, sample_file.json)]
    /\ UNCHANGED <<args, sample_file, runconfig_file, out_file, default_config>>

NextDetect == GetFilesystemTypes

SpecDetect == InitDetect /\ [][NextDetect]_vars

(***************************************************************************)
(* The translator on one set of arguments                                  *)
(***************************************************************************)
InitTranslate ==
    /\ args \in {[NoArgs EXCEPT !.scheduler = s, !.queue = q, !.resources = r] :
                    s \in Schedulers, q \in {PyNone, Str(<<>>), Batch},
                    r \in ResourceLists(MaxTokens)}
    /\ sample_file = Unreadable
    /\ runconfig_file = NoDoc
    /\ out_file = Absent
    /\ default_config = DefaultConfigLiteral
    /\ ret = NoResult

ArgsToCromwellCl ==
    LET r == args_to_cromwell_cl(args, default_config)
    IN  /\ ret' = r.ret
        /\ default_config' = r.default_config
        /\ UNCHANGED <<args, sample_file, runconfig_file, out_file>>

NextTranslate == ArgsToCromwellCl

SpecTranslate == InitTranslate /\ [][NextTranslate]_vars

(***************************************************************************)
(* create_cromwell_config on one set of inputs                             *)
(***************************************************************************)
ConfigResources == {<<>>, <<AccountMyacct>>, <<<<"noselect">>>>}

ConfigSamples ==
    {Unreadable, Readable(List(<<>>)), Readable(List(<<FileRef(LocalPath)>>)),
     Readable(List(<<FileRef(GsPath)>>)),
     Readable(List(<<FileRef(<<"http:", "//host/sample.bam">>)>>)),
     Readable(List(<<FileRef(LocalPath), FileRef(GsPath)>>)),
     Readable(Dict(<<"files">>, <<List(<<FileRef(<<"https:", "//host/sample.bam">>),
                                         FileRef(GsPath), FileRef(LocalPath)>>)>>))}

InitConfig ==
    /\ args \in [scheduler : Schedulers, queue : {PyNone, Batch}, resources : ConfigResources,
                 joblimit : (0 - 1)..MaxJobLimit, no_container : BOOLEAN,
                 runconfig : {PyNone, Str(<<"custom.conf">>)}]
    /\ sample_file \in ConfigSamples
    /\ runconfig_file \in Docs
    /\ out_file \in {Absent, Previous}
    /\ default_config = DefaultConfigLiteral
    /\ ret = NoResult

CreateCromwellConfig ==
    LET r == create_cromwell_config(args, WorkDir, sample_file, runconfig_file,
                                    default_config, out_file)
    IN  /\ ret' = r.ret
        /\ out_file' = r.out_file
        /\ default_config' = r.default_config
        /\ UNCHANGED <<args, sample_file, runconfig_file>>

NextConfig == CreateCromwellConfig

SpecConfig == InitConfig /\ [][NextConfig]_vars

(***************************************************************************)
(* A process that calls the two entry points any number of times           *)
(***************************************************************************)
CallArgs ==
    {[NoArgs EXCEPT !.scheduler = s, !.queue = q, !.resources = r] :
        s \in {"", "slurm", "pbspro", "sge", "moab"}, q \in {PyNone, Batch},
        r \in {<<>>, <<AccountMyacct \o <<";", "noselect">> >>}}

CallSamples == {Readable(List(<<FileRef(LocalPath)>>)), Readable(List(<<FileRef(GsPath)>>))}

Init ==
    /\ args = NoArgs
    /\ sample_file = Unreadable
    /\ runconfig_file = NoDoc
    /\ out_file = Absent
    /\ default_config = DefaultConfigLiteral
    /\ ret = NoResult

CallArgsToCromwellCl ==
    \E a \in CallArgs :
        /\ args' = a
        /\ ret' = args_to_cromwell_cl(a, default_config).ret
        /\ default_config' = args_to_cromwell_cl(a, default_config).default_config
        /\ UNCHANGED <<sample_file, runconfig_file, out_file>>

CallCreateCromwellConfig ==
    \E a \in CallArgs, sample \in CallSamples :
        LET r == create_cromwell_config(a, WorkDir, sample, runconfig_file,
                                        default_config, out_file)
        IN  /\ args' = a
            /\ sample_file' = sample
            /\ ret' = r.ret
            /\ out_file' = r.out_file
            /\ default_config' = r.default_config
            /\ UNCHANGED runconfig_file

Next == CallArgsToCromwellCl \/ CallCreateCromwellConfig

Spec == Init /\ [][Next]_vars

(***************************************************************************)
(* Properties                                                              *)
(***************************************************************************)
Detected == ret.op = "_get_filesystem_types"

Suffixed(tag) == Len(tag) > 0 /\ tag[Len(tag)] = "_container"

Marked(tag) == Has(tag, "_container")

\* C1 (as stated): with containers disabled (no_container true) every tag the
\* detector returns carries the "_container" suffix, and with containers
\* enabled (no_container false) no tag carries it.
C1_Original ==
    Detected =>
        /\ args.no_container => \A tag \in ret.file_types : Suffixed(tag)
        /\ ~args.no_container => \A tag \in ret.file_types : ~Marked(tag)

\* C1 (amended): the flag works the other way round.  With no_container false
\* every tag the detector returns carries the "_container" suffix, and with
\* no_container true no tag carries it.
C1_SuffixIffContainers ==
    Detected =>
        /\ ~args.no_container => \A tag \in ret.file_types : Suffixed(tag)
        /\ args.no_container => \A tag \in ret.file_types : ~Marked(tag)

C1_Witness ==
    /\ Detected
    /\ ~args.no_container
    /\ ret.file_types = {<<"gcp", "_container">>, <<"local", "_container">>}

IsFileRef(node) == node.t = "dict" /\ HasKey(node, "class")

\* paths of the file references found below a node: through lists and
\* mappings, and through the records of file references too when intoFiles
RECURSIVE RefPaths(_, _)
RefPaths(node, intoFiles) ==
    (IF IsFileRef(node) THEN {Get(node, "path").v} ELSE {})
    \cup (IF node.t \in {"list", "dict"} /\ (intoFiles \/ ~IsFileRef(node))
          THEN UNION {RefPaths(node.items[i], intoFiles) : i \in 1..Len(node.items)}
          ELSE {})

\* the one class of a path
ClassOf(path) ==
    IF Len(path) > 0 /\ path[1] = "gs:" THEN "gcp"
    ELSE IF Len(path) > 0 /\ path[1] \in {"http:", "https:"} THEN "http"
    ELSE "local"

BaseTags == {tag[1] : tag \in ret.file_types}

\* C7 (as stated): the tag set is the set of classes of all file references
\* reachable through lists and mappings at any depth, those nested inside
\* another file reference's record included.
C7_Original ==
    Detected => BaseTags = {ClassOf(path) : path \in RefPaths(sample_file.json, TRUE)}

\* C7 (amended): the tag set is the set of classes (gcp, http or local, one
\* per path) of all file references reachable through lists and through
\* mappings that are not file references themselves; what lies inside a file
\* reference's record is not visited.  The set does not depend on the order.
C7_VisitsOutermostRefs ==
    Detected =>
        /\ BaseTags = {ClassOf(path) : path \in RefPaths(sample_file.json, FALSE)}
        /\ \A tag \in ret.file_types : tag[1] \in {"gcp", "http", "local"}

\* a gs: reference two containers deep, after a local one
C7_Witness ==
    /\ Detected
    /\ sample_file.json = List(<<FileRef(LocalPath), Dict(<<"files">>, <<FileRef(GsPath)>>)>>)
    /\ BaseTags = {"gcp", "local"}

Translated == ret.op = "args_to_cromwell_cl"

\* C2: a requested scheduler outside {slurm, sge, pbspro, torque, htcondor}
\* fails with the unsupported-scheduler error, one of that set other than
\* htcondor requested without a queue fails with the missing-queue error, and
\* no other scheduler/queue combination raises either error.
C2_SchedulerValidation ==
    Translated /\ args.scheduler # "" =>
        IF args.scheduler \notin Supported THEN ret.err = ErrUnsupported
        ELSE IF args.scheduler # "htcondor" /\ ~Truthy(args.queue) THEN ret.err = ErrQueue
        ELSE ret.err \notin {ErrUnsupported, ErrQueue}

\* the resource list is the single override key=value
SingleOverride(tok) == args.resources = <<tok>>

C3_Cases == Translated /\ ret.err = "" /\ args.scheduler # ""

\* C3 (as stated): "account=myacct" gives account -> "myacct" on slurm and
\* account -> "-A myacct" on pbspro.
C3_Original ==
    C3_Cases /\ SingleOverride(AccountMyacct) =>
        /\ args.scheduler = "slurm" => ret.config[K("account")] = Str(<<"myacct">>)
        /\ args.scheduler = "pbspro" => ret.config[K("account")] = Str(<<"-A ", "myacct">>)

\* C3 (amended): "account=myacct" gives account -> "-A myacct" on slurm as
\* on pbspro; in general mapping[key] = prefix + value, where the prefix is
\* "-A " for account on slurm and on pbspro and empty for every other pair.
C3_AccountPrefix ==
    \A value \in {<<"myacct">>, <<"other">>} :
        C3_Cases /\ SingleOverride(<<"account", "=">> \o value) =>
            ret.config[K("account")] =
                Str((IF args.scheduler \in {"slurm", "pbspro"} THEN <<"-A ">> ELSE <<>>)
                    \o value)

C3_Witness ==
    /\ C3_Cases
    /\ SingleOverride(AccountMyacct)
    /\ args.scheduler = "slurm"
    /\ ret.config[K("account")] = Str(<<"-A ", "myacct">>)

\* all ";"-separated tokens of all resource strings, in input order
RECURSIVE AllTokens(_)
AllTokens(resources) ==
    IF resources = <<>> THEN <<>>
    ELSE Split(Head(resources), ";") \o AllTokens(Tail(resources))

EqCount(tok) == Cardinality({i \in 1..Len(tok) : tok[i] = "="})

EqAt(tok) == CHOOSE i \in 1..Len(tok) : tok[i] = "="

Sets(tok, scheduler) ==
    EqCount(tok) = 1 \/ (tok = <<"noselect">> /\ scheduler = "pbspro")

\* the key a token sets
TargetKey(tok) ==
    IF EqCount(tok) = 1 THEN SubSeq(tok, 1, EqAt(tok) - 1) ELSE K("cpu_and_mem")

\* and the value it sets it to
TargetVal(tok, scheduler) ==
    IF EqCount(tok) = 1
    THEN Str((IF TargetKey(tok) = K("account") /\ scheduler \in {"slurm", "pbspro"}
              THEN <<"-A ">> ELSE <<>>)
             \o SubSeq(tok, EqAt(tok) + 1, Len(tok)))
    ELSE Str(<<"-l ncpus=${cpu} -l mem=${memory_mb}mb">>)

Max(S) == CHOOSE x \in S : \A y \in S : y <= x

\* C9: for an active scheduler the mapping is the scheduler defaults plus the
\* queue, changed by the tokens of the resource strings in input order: a
\* token with exactly one "=" sets its key to prefix + value, a registered
\* shorthand sets its target key, any other token changes nothing and raises
\* no error, and the last token that sets a key decides its value.
C9_LastWriteWins ==
    Translated /\ args.scheduler \in DOMAIN DefaultConfigLiteral
               /\ (Truthy(args.queue) \/ args.scheduler = "htcondor") =>
        LET toks == AllTokens(args.resources)
            base == Put(DefaultConfigLiteral[args.scheduler], K("queue"), args.queue)
            setters(k) == {i \in 1..Len(toks) :
                              Sets(toks[i], args.scheduler) /\ TargetKey(toks[i]) = k}
        IN  /\ ret.err = ""
            /\ DOMAIN ret.config =
                   (DOMAIN base) \cup {TargetKey(toks[i]) :
                                          i \in {j \in 1..Len(toks) : Sets(toks[j], args.scheduler)}}
            /\ \A k \in DOMAIN ret.config :
                   ret.config[k] = IF setters(k) = {} THEN base[k]
                                   ELSE TargetVal(toks[Max(setters(k))], args.scheduler)

\* two overrides of account in one string
C9_Witness ==
    /\ Translated
    /\ args.scheduler = "pbspro"
    /\ args.resources = <<AccountMyacct \o <<";">> \o AccountOther>>
    /\ ret.config[K("account")] = Str(<<"-A ", "other">>)

Created == ret.op = "create_cromwell_config"

\* the text is the whole top-level template with every placeholder replaced
Complete(text) ==
    /\ Len(text) > 0
    /\ text[1] = CROMWELL_CONFIG[1]
    /\ text[Len(text)] = CROMWELL_CONFIG[Len(CROMWELL_CONFIG)]
    /\ ~Has(text, "%(")
    /\ Has(text, "Local { config {")

\* C4: a failing call of create_cromwell_config leaves the output file as it
\* was before the call (absent or with its previous content), and a successful
\* call leaves it holding the complete configuration text.
C4_NoPartialWrite ==
    [][Created' =>
          /\ ret'.err # "" => out_file' = out_file
          /\ ret'.err = "" => out_file' = File(ret'.text) /\ Complete(ret'.text)]_vars

\* a call that failed on the missing queue and left the previous file
C4_Witness ==
    /\ Created
    /\ ret.err = ErrQueue
    /\ out_file = Previous

Directive == "concurrent-job-limit = "

\* positions of the concurrency directive in a text
DirectiveAt(text) == {i \in 1..Len(text) : text[i] = Directive}

\* C5: with job limit 0 and no scheduler the output holds
\* "concurrent-job-limit = 1"; with job limit 0 and a scheduler it holds no
\* directive in any provider block; with a job limit n > 0 the directive is
\* "concurrent-job-limit = n"; a limit that is not positive gives none.
C5_ConcurrencyDirective ==
    Created /\ ret.err = "" =>
        LET n == args.joblimit
            at == DirectiveAt(ret.text)
            blocks == IF args.scheduler = "" THEN 1 ELSE 2
            shows(d) == \A i \in at : SubSeq(ret.text, i + 1, i + Len(d)) = d
        IN  /\ n = 0 /\ args.scheduler = "" => Cardinality(at) = 1 /\ shows(<<"1">>)
            /\ n = 0 /\ args.scheduler # "" => at = {}
            /\ n > 0 => Cardinality(at) = blocks /\ shows(IntStr(n))
            /\ n < 0 => at = {}

C5_Witness ==
    /\ Created
    /\ ret.err = ""
    /\ args.joblimit = 0
    /\ args.scheduler = ""
    /\ \E i \in DirectiveAt(ret.text) : ret.text[i + 1] = "1"

\* C8: for every supported scheduler with a queue, whatever the resource
\* overrides, the scheduler's template is substituted without error and the
\* output holds that scheduler's provider block.
C8_PlaceholdersBound ==
    Created /\ args.scheduler \in Supported /\ Truthy(args.queue)
            /\ ret.err \notin {ErrParse, ErrIO} =>
        /\ ret.err = ""
        /\ Has(ret.text, Upper(args.scheduler))

HasGsRef == sample_file.readable /\ GsPath \in RefPaths(sample_file.json, FALSE)

\* C10: a gcs stanza is in the providers' filesystems block only if the
\* manifest holds a gs: reference, and then the google auth declaration and
\* the engine-level gcs stanza are in the output too.
C10_GcsAgrees ==
    Created /\ ret.err = "" /\ Has(ret.text, FsGcs) =>
        /\ HasGsRef
        /\ Has(ret.text, GoogleAuths)
        /\ Has(ret.text, EngineGcs)

\* what the last call gives when it is the first call of a process
AsFirstCall ==
    IF Created
    THEN create_cromwell_config(args, WorkDir, sample_file, runconfig_file,
                                DefaultConfigLiteral, Absent).ret
    ELSE args_to_cromwell_cl(args, DefaultConfigLiteral).ret

\* C6: whatever calls came before, a call returns the flags, the mapping and
\* the text (or the error) it returns as a first call, and every call starts
\* from the same per-scheduler defaults.
C6_CallsIndependent ==
    /\ ret.op # "" => ret = AsFirstCall
    /\ bind_default_config(default_config) = DefaultConfigLiteral

\* a slurm call without overrides, made after a call that wrote the slurm
\* block with the account set
C6_Witness ==
    /\ ret.op = "args_to_cromwell_cl"
    /\ ret.err = ""
    /\ args.scheduler = "slurm" /\ args.resources = <<>>
    /\ ret.config[K("account")] = Str(<<>>)
    /\ out_file.exists /\ Has(out_file.text, "SLURM") /\ Has(out_file.text, "myacct")

====
